---- MODULE Spec2Model ----
(***************************************************************************)
(* IMU preintegration (gtsam/navigation/ImuFactor.cpp).                    *)
(*                                                                         *)
(* The program works on doubles in three dimensions.  The model keeps the  *)
(* program's formulas and runs them on the planar sub-case, which the      *)
(* 9x9 propagation leaves invariant: position and velocity in the x-y      *)
(* plane, rotation about z.  The position and velocity blocks are 2x2      *)
(* (rows/columns x,y), the angle block is 1x1 (z), so that the 9x9         *)
(* matrices F, Q, P become 5x5 with the same block layout                  *)
(*      rows/cols 1..2 = position, 3..4 = velocity, 5 = angle.             *)
(* Finite rotations are quarter turns about z (a Rot3 is the number of     *)
(* quarter turns, 0..3), whose rotation matrices are integral; angular     *)
(* rates and so(3) coordinates are counted in quarter turns.  All numbers  *)
(* are integers, so floating point rounding is outside the model.          *)
(* Quantities the program multiplies by 0.5 are stored doubled (suffix     *)
(* _x2).                                                                   *)
(***************************************************************************)
EXTENDS Integers, Sequences, FiniteSets, TLC

VARIABLES ctorArgs, pim, factor, last, nSamples

vars == <<ctorArgs, pim, factor, last, nSamples>>

(***************************************************************************)
(* Bounds of the model.                                                    *)
(***************************************************************************)
MaxSamples == 2
MaxTraceSamples == 5

(***************************************************************************)
(* Dense matrices (Eigen): a matrix is a tuple of rows.                    *)
(***************************************************************************)
RECURSIVE DotFrom(_, _, _, _, _)
DotFrom(A, B, i, j, k) ==
  IF k = 0 THEN 0 ELSE A[i][k] * B[k][j] + DotFrom(A, B, i, j, k - 1)

\* The matrix of m rows and c columns whose entries are those of M, built entry
\* by entry (a dense matrix holds values, not expressions).
RECURSIVE RowOf(_, _, _)
RowOf(M, i, j) == IF j = 0 THEN <<>> ELSE Append(RowOf(M, i, j - 1), M[i][j])

RECURSIVE RowsOf(_, _, _)
RowsOf(M, i, c) == IF i = 0 THEN <<>> ELSE Append(RowsOf(M, i - 1, c), RowOf(M, i, c))

Matrix(m, c, M) == RowsOf(M, m, c)

MatMul(A, B) ==
  Matrix(Len(A), Len(B[1]),
         [i \in 1..Len(A) |-> [j \in 1..Len(B[1]) |-> DotFrom(A, B, i, j, Len(B))]])

MatAdd(A, B) ==
  Matrix(Len(A), Len(A[1]),
         [i \in 1..Len(A) |-> [j \in 1..Len(A[1]) |-> A[i][j] + B[i][j]]])

MatScale(A, c) ==
  Matrix(Len(A), Len(A[1]), [i \in 1..Len(A) |-> [j \in 1..Len(A[1]) |-> A[i][j] * c]])

MatNeg(A) == MatScale(A, -1)

Transpose(A) ==
  Matrix(Len(A[1]), Len(A), [j \in 1..Len(A[1]) |-> [i \in 1..Len(A) |-> A[i][j]]])

Zeros(m, n) == Matrix(m, n, [i \in 1..m |-> [j \in 1..n |-> 0]])

Eye(n) == Matrix(n, n, [i \in 1..n |-> [j \in 1..n |-> IF i = j THEN 1 ELSE 0]])

\* The comma initializer "M << A, B, C": blocks side by side, block rows stacked.
BlockRow(A, B, C) ==
  Matrix(Len(A), Len(A[1]) + Len(B[1]) + Len(C[1]),
         [i \in 1..Len(A) |-> A[i] \o B[i] \o C[i]])

BlockRows(r1, r2, r3) == r1 \o r2 \o r3

RECURSIVE DiagSum(_, _)
DiagSum(M, k) == IF k = 0 THEN 0 ELSE M[k][k] + DiagSum(M, k - 1)

Trace(M) == DiagSum(M, Len(M))

\* "M.block<..>(r0, c0) = B": M with the block whose corner is (r0, c0) set to B.
SetBlock(M, r0, c0, B) ==
  Matrix(Len(M), Len(M[1]),
         [i \in 1..Len(M) |-> [j \in 1..Len(M[1]) |->
            IF i >= r0 /\ i < r0 + Len(B) /\ j >= c0 /\ j < c0 + Len(B[1])
            THEN B[i - r0 + 1][j - c0 + 1] ELSE M[i][j]]])

\* Vectors of the plane are pairs <<x, y>>.
VecAdd(u, v) == <<u[1] + v[1], u[2] + v[2]>>
VecSub(u, v) == <<u[1] - v[1], u[2] - v[2]>>
VecScale(u, c) == <<u[1] * c, u[2] * c>>
MatVec(A, v) == <<A[1][1] * v[1] + A[1][2] * v[2], A[2][1] * v[1] + A[2][2] * v[2]>>
Vector0 == <<0, 0>>

I_3x3 == Eye(2)
Z_3x3 == Zeros(2, 2)
Z_pos_angle == Zeros(2, 1)
Z_angle_pos == Zeros(1, 2)

(***************************************************************************)
(* Rot3 restricted to quarter turns about z.  A rotation is its number of  *)
(* quarter turns; so(3) coordinates (along z) count quarter turns too.     *)
(***************************************************************************)
Rot3_Expmap(theta) == theta % 4

\* The principal value of the logarithm: -1, 0, 1 or 2 quarter turns.
Rot3_Logmap(R) == IF R = 3 THEN -1 ELSE R

Rot3_compose(R1, R2) == (R1 + R2) % 4

Rot3_inverse(R) == (4 - R) % 4

\* The rotation matrix: its x-y block, and its z-z entry.
Rot3_matrix(R) ==
  CASE R = 0 -> << <<1, 0>>, <<0, 1>> >>
    [] R = 1 -> << <<0, -1>>, <<1, 0>> >>
    [] R = 2 -> << <<-1, 0>>, <<0, -1>> >>
    [] R = 3 -> << <<0, 1>>, <<-1, 0>> >>

Rot3_matrix_zz(R) == << <<1>> >>

\* The right Jacobian of the exponential map and its inverse, at a rotation
\* vector along z: their z-z entry, which is 1 whatever the angle.
rightJacobianExpMapSO3(theta) == << <<1>> >>

rightJacobianExpMapSO3inverse(theta) == << <<1>> >>

\* skewSymmetric(a) for a in the x-y plane: its x,y rows of the z column,
\* (a x e_z) = (a_y, -a_x).
skewSymmetric(a) == << <<a[2]>>, <<-a[1]>> >>

(***************************************************************************)
(* PreintegrationBase: the tangent state and the bias Jacobians.           *)
(***************************************************************************)
PreintegrationBase(bias, use2ndOrderIntegration) ==
  [ biasHat_ |-> bias,
    use2ndOrderIntegration_ |-> use2ndOrderIntegration,
    deltaPij_x2 |-> Vector0,
    deltaVij_ |-> Vector0,
    deltaRij_ |-> 0,
    deltaTij_ |-> 0,
    delPdelBiasAcc_x2 |-> Z_3x3,
    delPdelBiasOmega_x2 |-> Z_pos_angle,
    delVdelBiasAcc_ |-> Z_3x3,
    delVdelBiasOmega_ |-> Z_pos_angle,
    delRdelBiasOmega_ |-> Zeros(1, 1) ]

PreintegrationBase_resetIntegration(p) ==
  [p EXCEPT !.deltaPij_x2 = Vector0,
            !.deltaVij_ = Vector0,
            !.deltaRij_ = 0,
            !.deltaTij_ = 0,
            !.delPdelBiasAcc_x2 = Z_3x3,
            !.delPdelBiasOmega_x2 = Z_pos_angle,
            !.delVdelBiasAcc_ = Z_3x3,
            !.delVdelBiasOmega_ = Z_pos_angle,
            !.delRdelBiasOmega_ = Zeros(1, 1)]

\* Without a sensor pose (body_P_sensor = boost::none): subtract the bias.
correctMeasurementsByBiasAndSensorPose(p, measuredAcc, measuredOmega) ==
  [ correctedAcc |-> VecSub(measuredAcc, p.biasHat_.accelerometer),
    correctedOmega |-> measuredOmega - p.biasHat_.gyroscope ]

thetaRij(p) == Rot3_Logmap(p.deltaRij_)

deltaRij(p) == Rot3_matrix(p.deltaRij_)

updatePreintegratedJacobians(p, correctedAcc, Jr_theta_incr, Rincr, deltaT) ==
  LET dRij == Rot3_matrix(p.deltaRij_)
      temp == MatMul(MatScale(MatMul(MatNeg(dRij), skewSymmetric(correctedAcc)), deltaT),
                     p.delRdelBiasOmega_)
      P2acc == IF ~p.use2ndOrderIntegration_
               THEN MatScale(p.delVdelBiasAcc_, 2 * deltaT)
               ELSE MatAdd(MatScale(p.delVdelBiasAcc_, 2 * deltaT),
                           MatScale(dRij, -(deltaT * deltaT)))
      P2omega == IF ~p.use2ndOrderIntegration_
                 THEN MatScale(p.delVdelBiasOmega_, 2 * deltaT)
                 ELSE MatScale(MatAdd(MatScale(p.delVdelBiasOmega_, 2), temp), deltaT)
  IN [p EXCEPT
        !.delPdelBiasAcc_x2 = MatAdd(@, P2acc),
        !.delPdelBiasOmega_x2 = MatAdd(@, P2omega),
        !.delVdelBiasAcc_ = MatAdd(@, MatScale(dRij, -deltaT)),
        !.delVdelBiasOmega_ = MatAdd(@, temp),
        !.delRdelBiasOmega_ =
           MatAdd(MatMul(Rot3_matrix_zz(Rot3_inverse(Rincr)), @),
                  MatScale(Jr_theta_incr, -deltaT))]

updatePreintegratedMeasurements(p, correctedAcc, Rincr, deltaT) ==
  LET dRij == Rot3_matrix(p.deltaRij_)
      temp == VecScale(MatVec(dRij, correctedAcc), deltaT)
  IN [p EXCEPT
        !.deltaPij_x2 =
           IF ~p.use2ndOrderIntegration_
           THEN VecAdd(@, VecScale(p.deltaVij_, 2 * deltaT))
           ELSE VecAdd(VecAdd(@, VecScale(p.deltaVij_, 2 * deltaT)), VecScale(temp, deltaT)),
        !.deltaVij_ = VecAdd(@, temp),
        !.deltaRij_ = Rot3_compose(@, Rincr),
        !.deltaTij_ = @ + deltaT]

(***************************************************************************)
(* ImuFactor::PreintegratedMeasurements (ImuFactor.cpp).                   *)
(***************************************************************************)
PreintegratedMeasurements(bias, measuredAccCovariance, measuredOmegaCovariance, integrationErrorCovariance, use2ndOrderIntegration) ==
  LET m0 == Zeros(5, 5)
      m1 == SetBlock(m0, 1, 1, integrationErrorCovariance)
      m2 == SetBlock(m1, 3, 3, measuredAccCovariance)
      m3 == SetBlock(m2, 5, 5, measuredOmegaCovariance)
  IN PreintegrationBase(bias, use2ndOrderIntegration) @@
     [ measurementCovariance_ |-> m3, preintMeasCov_ |-> Zeros(5, 5) ]

\* A faulty reset: the base class is reset, the covariance is left as it is.
resetIntegration_keepsCovariance(p) == PreintegrationBase_resetIntegration(p)

resetIntegration(p) ==
  [PreintegrationBase_resetIntegration(p) EXCEPT !.preintMeasCov_ = Zeros(5, 5)]

\* Matrix H_vel_angles = - R_i * skewSymmetric(correctedAcc) * Jr_theta_i * deltaT
H_vel_angles_of(R_i, correctedAcc, Jr_theta_i, deltaT) ==
  MatScale(MatMul(MatMul(MatNeg(R_i), skewSymmetric(correctedAcc)), Jr_theta_i), deltaT)

\* Matrix H_angles_angles = Jrinv_theta_j * Rincr.inverse().matrix() * Jr_theta_i
H_angles_angles_of(Jrinv_theta_j, Rincr, Jr_theta_i) ==
  MatMul(MatMul(Jrinv_theta_j, Rot3_matrix_zz(Rot3_inverse(Rincr))), Jr_theta_i)

\* F << I, I*deltaT, Z,   Z, I, H_vel_angles,   Z, Z, H_angles_angles
TransitionF(deltaT, H_vel_angles, H_angles_angles) ==
  BlockRows(BlockRow(I_3x3, MatScale(I_3x3, deltaT), Z_pos_angle),
            BlockRow(Z_3x3, I_3x3, H_vel_angles),
            BlockRow(Z_angle_pos, Z_angle_pos, H_angles_angles))

\* G_test << I*deltaT, Z, Z,   Z, R_i*deltaT, Z,   Z, Z, Jrinv_theta_j*Jr_theta_incr*deltaT
NoiseG(deltaT, R_i, Jrinv_theta_j, Jr_theta_incr) ==
  BlockRows(BlockRow(MatScale(I_3x3, deltaT), Z_3x3, Z_pos_angle),
            BlockRow(Z_3x3, MatScale(R_i, deltaT), Z_pos_angle),
            BlockRow(Z_angle_pos, Z_angle_pos,
                     MatScale(MatMul(Jrinv_theta_j, Jr_theta_incr), deltaT)))

\* A faulty propagation: the noise is added without the factor deltaT.
propagateCovariance_noDeltaT(F, preintMeasCov, measurementCovariance, deltaT) ==
  MatAdd(MatMul(MatMul(F, preintMeasCov), Transpose(F)), measurementCovariance)

\* A faulty propagation: F is applied on the right without being transposed.
propagateCovariance_noTranspose(F, preintMeasCov, measurementCovariance, deltaT) ==
  MatAdd(MatMul(MatMul(F, preintMeasCov), F), MatScale(measurementCovariance, deltaT))

\* preintMeasCov_ = F * preintMeasCov_ * F.transpose() + measurementCovariance_ * deltaT
propagateCovariance(F, preintMeasCov, measurementCovariance, deltaT) ==
  MatAdd(MatMul(MatMul(F, preintMeasCov), Transpose(F)),
         MatScale(measurementCovariance, deltaT))

\* A faulty order: the tangent state is advanced first, and the Jacobians, R_i
\* and theta_i are then taken from the advanced rotation.
integrateMeasurement_advanceFirst(p, measuredAcc, measuredOmega, deltaT) ==
  LET corrected == correctMeasurementsByBiasAndSensorPose(p, measuredAcc, measuredOmega)
      correctedAcc == corrected.correctedAcc
      correctedOmega == corrected.correctedOmega
      theta_incr == correctedOmega * deltaT
      Rincr == Rot3_Expmap(theta_incr)
      Jr_theta_incr == rightJacobianExpMapSO3(theta_incr)
      p1 == updatePreintegratedMeasurements(p, correctedAcc, Rincr, deltaT)
      p2 == updatePreintegratedJacobians(p1, correctedAcc, Jr_theta_incr, Rincr, deltaT)
      theta_i == thetaRij(p2)
      R_i == deltaRij(p2)
      Jr_theta_i == rightJacobianExpMapSO3(theta_i)
      theta_j == thetaRij(p2)
      Jrinv_theta_j == rightJacobianExpMapSO3inverse(theta_j)
      H_vel_angles == H_vel_angles_of(R_i, correctedAcc, Jr_theta_i, deltaT)
      H_angles_angles == H_angles_angles_of(Jrinv_theta_j, Rincr, Jr_theta_i)
      F == TransitionF(deltaT, H_vel_angles, H_angles_angles)
      p3 == [p2 EXCEPT !.preintMeasCov_ =
               propagateCovariance(F, p2.preintMeasCov_, p2.measurementCovariance_, deltaT)]
  IN [ pim |-> p3,
       threw |-> FALSE,
       correctedAcc |-> correctedAcc,
       Rincr |-> Rincr,
       theta_i |-> theta_i,
       R_i |-> R_i,
       theta_j |-> theta_j,
       H_vel_angles |-> H_vel_angles,
       H_angles_angles |-> H_angles_angles,
       thetaRijCalls |-> <<theta_i, theta_j>>,
       F_test |-> F,
       G_test |-> NoiseG(deltaT, R_i, Jrinv_theta_j, Jr_theta_incr) ]

\* A faulty saving: thetaRij() is called once, before the tangent state is
\* advanced, and its value is used for theta_j as well.
integrateMeasurement_oneThetaRij(p, measuredAcc, measuredOmega, deltaT) ==
  LET corrected == correctMeasurementsByBiasAndSensorPose(p, measuredAcc, measuredOmega)
      correctedAcc == corrected.correctedAcc
      correctedOmega == corrected.correctedOmega
      theta_incr == correctedOmega * deltaT
      Rincr == Rot3_Expmap(theta_incr)
      Jr_theta_incr == rightJacobianExpMapSO3(theta_incr)
      p1 == updatePreintegratedJacobians(p, correctedAcc, Jr_theta_incr, Rincr, deltaT)
      theta_i == thetaRij(p1)
      R_i == deltaRij(p1)
      Jr_theta_i == rightJacobianExpMapSO3(theta_i)
      p2 == updatePreintegratedMeasurements(p1, correctedAcc, Rincr, deltaT)
      theta_j == theta_i
      Jrinv_theta_j == rightJacobianExpMapSO3inverse(theta_j)
      H_vel_angles == H_vel_angles_of(R_i, correctedAcc, Jr_theta_i, deltaT)
      H_angles_angles == H_angles_angles_of(Jrinv_theta_j, Rincr, Jr_theta_i)
      F == TransitionF(deltaT, H_vel_angles, H_angles_angles)
      p3 == [p2 EXCEPT !.preintMeasCov_ =
               propagateCovariance(F, p2.preintMeasCov_, p2.measurementCovariance_, deltaT)]
  IN [ pim |-> p3,
       threw |-> FALSE,
       correctedAcc |-> correctedAcc,
       Rincr |-> Rincr,
       theta_i |-> theta_i,
       R_i |-> R_i,
       theta_j |-> theta_j,
       H_vel_angles |-> H_vel_angles,
       H_angles_angles |-> H_angles_angles,
       thetaRijCalls |-> <<theta_i>>,
       F_test |-> F,
       G_test |-> NoiseG(deltaT, R_i, Jrinv_theta_j, Jr_theta_incr) ]

\* One call.  The result holds the object after the call, the optional outputs
\* F_test and G_test, the locals the claims speak of, and the values the calls
\* of thetaRij() returned, in the order of the calls.  No statement of the
\* function tests deltaT, and none throws.
integrateMeasurement(p, measuredAcc, measuredOmega, deltaT) ==
  LET corrected == correctMeasurementsByBiasAndSensorPose(p, measuredAcc, measuredOmega)
      correctedAcc == corrected.correctedAcc
      correctedOmega == corrected.correctedOmega
      theta_incr == correctedOmega * deltaT
      Rincr == Rot3_Expmap(theta_incr)
      Jr_theta_incr == rightJacobianExpMapSO3(theta_incr)
      \* Update Jacobians
      p1 == updatePreintegratedJacobians(p, correctedAcc, Jr_theta_incr, Rincr, deltaT)
      theta_i == thetaRij(p1)
      R_i == deltaRij(p1)
      Jr_theta_i == rightJacobianExpMapSO3(theta_i)
      \* Update preintegrated measurements
      p2 == updatePreintegratedMeasurements(p1, correctedAcc, Rincr, deltaT)
      theta_j == thetaRij(p2)
      Jrinv_theta_j == rightJacobianExpMapSO3inverse(theta_j)
      H_vel_angles == H_vel_angles_of(R_i, correctedAcc, Jr_theta_i, deltaT)
      H_angles_angles == H_angles_angles_of(Jrinv_theta_j, Rincr, Jr_theta_i)
      F == TransitionF(deltaT, H_vel_angles, H_angles_angles)
      p3 == [p2 EXCEPT !.preintMeasCov_ =
               propagateCovariance(F, p2.preintMeasCov_, p2.measurementCovariance_, deltaT)]
  IN [ pim |-> p3,
       threw |-> FALSE,
       correctedAcc |-> correctedAcc,
       Rincr |-> Rincr,
       theta_i |-> theta_i,
       R_i |-> R_i,
       theta_j |-> theta_j,
       H_vel_angles |-> H_vel_angles,
       H_angles_angles |-> H_angles_angles,
       thetaRijCalls |-> <<theta_i, theta_j>>,
       F_test |-> F,
       G_test |-> NoiseG(deltaT, R_i, Jrinv_theta_j, Jr_theta_incr) ]

(***************************************************************************)
(* Definiteness of an integer matrix, by determinants.                     *)
(***************************************************************************)
\* M without row r and column c.
Minor(M, r, c) ==
  Matrix(Len(M) - 1, Len(M) - 1,
         [i \in 1..(Len(M) - 1) |-> [j \in 1..(Len(M) - 1) |->
            M[IF i < r THEN i ELSE i + 1][IF j < c THEN j ELSE j + 1]]])

RECURSIVE Det(_)
RECURSIVE CofactorSum(_, _)
CofactorSum(M, j) ==
  IF j = 0 THEN 0
  ELSE (IF M[1][j] = 0 THEN 0
        ELSE (IF j % 2 = 1 THEN 1 ELSE -1) * M[1][j] * Det(Minor(M, 1, j)))
       + CofactorSum(M, j - 1)

Det(M) == IF Len(M) = 1 THEN M[1][1] ELSE CofactorSum(M, Len(M))

IsSymmetric(M) == \A i \in 1..Len(M) : \A j \in 1..Len(M) : M[i][j] = M[j][i]

\* The principal sub-matrix on the index set S.
RECURSIVE SortedSeq(_)
SortedSeq(S) ==
  IF S = {} THEN <<>>
  ELSE LET m == CHOOSE x \in S : \A y \in S : x <= y
       IN <<m>> \o SortedSeq(S \ {m})

PrincipalSub(M, S) ==
  LET idx == SortedSeq(S)
  IN Matrix(Len(idx), Len(idx),
            [i \in 1..Len(idx) |-> [j \in 1..Len(idx) |-> M[idx[i]][idx[j]]]])

\* Sylvester: every leading principal minor is positive.
IsPositiveDefinite(M) ==
  IsSymmetric(M) /\ \A k \in 1..Len(M) : Det(PrincipalSub(M, 1..k)) > 0

\* Every principal minor is non-negative.
IsPositiveSemiDefinite(M) ==
  IsSymmetric(M) /\
  \A S \in (SUBSET (1..Len(M))) \ {{}} : Det(PrincipalSub(M, S)) >= 0

(***************************************************************************)
(* ImuFactor.                                                              *)
(***************************************************************************)
\* noiseModel::Gaussian::Covariance: a Gaussian noise model needs a strictly
\* positive definite covariance; any other is an error for the factor.
Gaussian_Covariance(covariance) ==
  IF IsPositiveDefinite(covariance)
  THEN [ threw |-> FALSE, model |-> [kind |-> "Gaussian", covariance |-> covariance] ]
  ELSE [ threw |-> TRUE ]

NoFactor == [ exists |-> FALSE ]

\* ImuFactor(): no noise model, default constants, a zero-noise _PIM_.
ImuFactorDefault ==
  [ exists |-> TRUE,
    noiseModel_ |-> [kind |-> "null"],
    gravity_ |-> Vector0,
    omegaCoriolis_ |-> 0,
    use2ndOrderCoriolis_ |-> FALSE,
    _PIM_ |-> PreintegratedMeasurements(
                 [accelerometer |-> Vector0, gyroscope |-> 0], Z_3x3, Zeros(1, 1), Z_3x3, FALSE) ]

\* A faulty constructor: the covariance is taken as the noise model untested.
ImuFactor_uncheckedCovariance(preintegratedMeasurements, gravity, omegaCoriolis, use2ndOrderCoriolis) ==
  [ threw |-> FALSE,
    factor |-> [ exists |-> TRUE,
                 noiseModel_ |-> [ kind |-> "Gaussian",
                                   covariance |-> preintegratedMeasurements.preintMeasCov_ ],
                 gravity_ |-> gravity,
                 omegaCoriolis_ |-> omegaCoriolis,
                 use2ndOrderCoriolis_ |-> use2ndOrderCoriolis,
                 _PIM_ |-> preintegratedMeasurements ] ]

\* ImuFactor(keys, preintegratedMeasurements, gravity, omegaCoriolis, ...): the
\* base class (the noise model) is built first, then the members; _PIM_ is a
\* copy of the argument.
ImuFactor(preintegratedMeasurements, gravity, omegaCoriolis, use2ndOrderCoriolis) ==
  LET base == Gaussian_Covariance(preintegratedMeasurements.preintMeasCov_)
  IN IF base.threw
     THEN [ threw |-> TRUE, factor |-> NoFactor ]
     ELSE [ threw |-> FALSE,
            factor |-> [ exists |-> TRUE,
                         noiseModel_ |-> base.model,
                         gravity_ |-> gravity,
                         omegaCoriolis_ |-> omegaCoriolis,
                         use2ndOrderCoriolis_ |-> use2ndOrderCoriolis,
                         _PIM_ |-> preintegratedMeasurements ] ]

\* omega x v for omega along z and v in the plane.
CrossZ(omega, v) == <<-(omega * v[2]), omega * v[1]>>

\* PreintegrationBase::computeErrorAndJacobians, the residual (fp, fv, fR);
\* fp is doubled.  A pose is [R, t].
computeErrorAndJacobians(p, pose_i, vel_i, pose_j, vel_j, bias_i, gravity, omegaCoriolis, use2ndOrderCoriolis) ==
  LET dt == p.deltaTij_
      biasAccIncr == VecSub(bias_i.accelerometer, p.biasHat_.accelerometer)
      biasOmegaIncr == bias_i.gyroscope - p.biasHat_.gyroscope
      Rot_i == Rot3_matrix(pose_i.R)
      dP_x2 == VecAdd(VecAdd(p.deltaPij_x2, MatVec(p.delPdelBiasAcc_x2, biasAccIncr)),
                      <<p.delPdelBiasOmega_x2[1][1] * biasOmegaIncr,
                        p.delPdelBiasOmega_x2[2][1] * biasOmegaIncr>>)
      dV == VecAdd(VecAdd(p.deltaVij_, MatVec(p.delVdelBiasAcc_, biasAccIncr)),
                   <<p.delVdelBiasOmega_[1][1] * biasOmegaIncr,
                     p.delVdelBiasOmega_[2][1] * biasOmegaIncr>>)
      second == IF use2ndOrderCoriolis
                THEN CrossZ(omegaCoriolis, CrossZ(omegaCoriolis, pose_i.t))
                ELSE Vector0
      pos_x2 == VecSub(
                  VecAdd(VecAdd(VecAdd(VecScale(pose_i.t, 2), MatVec(Rot_i, dP_x2)),
                                VecScale(vel_i, 2 * dt)),
                         VecScale(gravity, dt * dt)),
                  VecAdd(VecScale(CrossZ(omegaCoriolis, vel_i), 2 * dt * dt),
                         VecScale(second, dt * dt)))
      vel == VecSub(
               VecAdd(VecAdd(vel_i, MatVec(Rot_i, dV)), VecScale(gravity, dt)),
               VecAdd(VecScale(CrossZ(omegaCoriolis, vel_i), 2 * dt),
                      VecScale(second, dt)))
      deltaRij_biascorrected ==
        Rot3_compose(p.deltaRij_, Rot3_Expmap(p.delRdelBiasOmega_[1][1] * biasOmegaIncr))
      theta_corrected == Rot3_Logmap(deltaRij_biascorrected) - omegaCoriolis * dt
      fRhat == Rot3_compose(Rot3_inverse(Rot3_Expmap(theta_corrected)),
                            Rot3_compose(Rot3_inverse(pose_i.R), pose_j.R))
  IN [ fp_x2 |-> VecSub(VecScale(pose_j.t, 2), pos_x2),
       fv |-> VecSub(vel_j, vel),
       fR |-> Rot3_Logmap(fRhat) ]

\* A faulty evaluation: the stored measurement is re-based on the bias given.
evaluateError_rebasesBias(f, pose_i, vel_i, pose_j, vel_j, bias_i) ==
  [ factor |-> [f EXCEPT !._PIM_.biasHat_ = bias_i],
    error |-> computeErrorAndJacobians(f._PIM_, pose_i, vel_i, pose_j, vel_j, bias_i,
                                       f.gravity_, f.omegaCoriolis_, f.use2ndOrderCoriolis_) ]

\* ImuFactor::evaluateError, a const member: the factor after the call and
\* the residual.
evaluateError(f, pose_i, vel_i, pose_j, vel_j, bias_i) ==
  [ factor |-> f,
    error |-> computeErrorAndJacobians(f._PIM_, pose_i, vel_i, pose_j, vel_j, bias_i,
                                       f.gravity_, f.omegaCoriolis_, f.use2ndOrderCoriolis_) ]

(***************************************************************************)
(* The inputs the model draws.                                             *)
(***************************************************************************)
ZeroBias == [accelerometer |-> Vector0, gyroscope |-> 0]

SomeBias == [accelerometer |-> <<1, 0>>, gyroscope |-> 2]

\* Constructor arguments: unit noise, a correlated positive definite noise,
\* and the zero noise the default ImuFactor() passes.
CtorArgs ==
  { [ bias |-> ZeroBias,
      measuredAccCovariance |-> I_3x3,
      measuredOmegaCovariance |-> << <<1>> >>,
      integrationErrorCovariance |-> I_3x3,
      use2ndOrderIntegration |-> FALSE ],
    [ bias |-> SomeBias,
      measuredAccCovariance |-> << <<2, 1>>, <<1, 2>> >>,
      measuredOmegaCovariance |-> << <<2>> >>,
      integrationErrorCovariance |-> I_3x3,
      use2ndOrderIntegration |-> TRUE ],
    [ bias |-> SomeBias,
      measuredAccCovariance |-> Z_3x3,
      measuredOmegaCovariance |-> Zeros(1, 1),
      integrationErrorCovariance |-> Z_3x3,
      use2ndOrderIntegration |-> FALSE ] }

MeasuredAccs == { <<1, 0>>, <<0, 2>> }

MeasuredOmegas == { 1 }

DeltaTs == { -1, 0, 1 }

\* The constants a factor is built with.
FactorArgs ==
  { [ gravity |-> <<0, -2>>, omegaCoriolis |-> 1, use2ndOrderCoriolis |-> FALSE ],
    [ gravity |-> <<0, -2>>, omegaCoriolis |-> 1, use2ndOrderCoriolis |-> TRUE ] }

\* The arguments of an evaluation: two states at rest at the origin, and two
\* states apart with another bias estimate.
EvalArgs ==
  { [ pose_i |-> [R |-> 0, t |-> Vector0], vel_i |-> Vector0,
      pose_j |-> [R |-> 0, t |-> Vector0], vel_j |-> Vector0,
      bias_i |-> ZeroBias ],
    [ pose_i |-> [R |-> 1, t |-> <<1, 0>>], vel_i |-> <<0, 1>>,
      pose_j |-> [R |-> 2, t |-> <<3, 1>>], vel_j |-> <<1, 1>>,
      bias_i |-> SomeBias ] }

\* The run on which the trace of the covariance is followed: unit noise, unit
\* steps, accelerations along the diagonal of the plane.
TraceCtorArgs ==
  { [ bias |-> ZeroBias,
      measuredAccCovariance |-> I_3x3,
      measuredOmegaCovariance |-> << <<1>> >>,
      integrationErrorCovariance |-> I_3x3,
      use2ndOrderIntegration |-> FALSE ] }

TraceAccs == { <<2, 2>>, <<-6, -6>>, <<3, 3>> }

(***************************************************************************)
(* The state machine.  pim is the PreintegratedMeasurements object the     *)
(* caller integrates into; factor is the ImuFactor built from it, if any;  *)
(* last records the last operation: its arguments, the object before it    *)
(* (pre) and what it returned.                                             *)
(***************************************************************************)
InitFrom(Args) ==
  \E a \in Args :
    /\ ctorArgs = a
    /\ pim = PreintegratedMeasurements(a.bias, a.measuredAccCovariance, a.measuredOmegaCovariance, a.integrationErrorCovariance, a.use2ndOrderIntegration)
    /\ factor = NoFactor
    /\ last = [op |-> "PreintegratedMeasurements"]
    /\ nSamples = 0

Init == InitFrom(CtorArgs)

IntegrateFrom(Accs, Omegas, Dts, max) ==
  /\ nSamples < max
  /\ \E measuredAcc \in Accs, measuredOmega \in Omegas, deltaT \in Dts :
       \E r \in {integrateMeasurement(pim, measuredAcc, measuredOmega, deltaT)} :
          /\ pim' = r.pim
          /\ last' = [ op |-> "integrateMeasurement",
                       pre |-> pim,
                       measuredAcc |-> measuredAcc,
                       measuredOmega |-> measuredOmega,
                       deltaT |-> deltaT,
                       threw |-> r.threw,
                       correctedAcc |-> r.correctedAcc,
                       Rincr |-> r.Rincr,
                       theta_i |-> r.theta_i,
                       R_i |-> r.R_i,
                       theta_j |-> r.theta_j,
                       H_vel_angles |-> r.H_vel_angles,
                       H_angles_angles |-> r.H_angles_angles,
                       thetaRijCalls |-> r.thetaRijCalls,
                       F_test |-> r.F_test,
                       G_test |-> r.G_test ]
  /\ nSamples' = nSamples + 1
  /\ UNCHANGED <<ctorArgs, factor>>

IntegrateMeasurement == IntegrateFrom(MeasuredAccs, MeasuredOmegas, DeltaTs, MaxSamples)

ResetIntegration ==
  /\ pim' = resetIntegration(pim)
  /\ last' = [op |-> "resetIntegration", pre |-> pim]
  /\ UNCHANGED <<ctorArgs, factor, nSamples>>

ConstructFactor ==
  /\ ~factor.exists
  /\ \E a \in FactorArgs :
       \E r \in {ImuFactor(pim, a.gravity, a.omegaCoriolis, a.use2ndOrderCoriolis)} :
          /\ factor' = r.factor
          /\ last' = [op |-> "ImuFactor", pre |-> pim, threw |-> r.threw]
  /\ UNCHANGED <<ctorArgs, pim, nSamples>>

ConstructDefaultFactor ==
  /\ ~factor.exists
  /\ factor' = ImuFactorDefault
  /\ last' = [op |-> "ImuFactor()", pre |-> pim, threw |-> FALSE]
  /\ UNCHANGED <<ctorArgs, pim, nSamples>>

EvaluateError ==
  /\ factor.exists
  /\ \E a \in EvalArgs :
       \E r \in {evaluateError(factor, a.pose_i, a.vel_i, a.pose_j, a.vel_j, a.bias_i)} :
          /\ factor' = r.factor
          /\ last' = [op |-> "evaluateError", pre |-> pim, error |-> r.error]
  /\ UNCHANGED <<ctorArgs, pim, nSamples>>

Next ==
  \/ IntegrateMeasurement
  \/ ResetIntegration
  \/ ConstructFactor
  \/ ConstructDefaultFactor
  \/ EvaluateError

Spec == Init /\ [][Next]_vars

\* The run of the trace: one object, integrated and reset.
InitTrace == InitFrom(TraceCtorArgs)

IntegrateTrace == IntegrateFrom(TraceAccs, {0}, {1}, MaxTraceSamples)

NextTrace ==
  \/ IntegrateTrace
  \/ ResetIntegration

SpecTrace == InitTrace /\ [][NextTrace]_vars

(***************************************************************************)
(* Properties.                                                             *)
(***************************************************************************)
IsZero(M) == \A i \in 1..Len(M) : \A j \in 1..Len(M[1]) : M[i][j] = 0

Integrated == last.op = "integrateMeasurement"

\* The transition matrix of the last call written out entry by entry from its
\* deltaT and its two coupling blocks.
ExpectedF ==
  LET dt == last.deltaT
      H == last.H_vel_angles
      A == last.H_angles_angles
  IN << <<1, 0, dt, 0, 0>>,
        <<0, 1, 0, dt, 0>>,
        <<0, 0, 1, 0, H[1][1]>>,
        <<0, 0, 0, 1, H[2][1]>>,
        <<0, 0, 0, 0, A[1][1]>> >>

\* The noise covariance written out from the constructor's arguments.
ExpectedQ ==
  LET ie == ctorArgs.integrationErrorCovariance
      ac == ctorArgs.measuredAccCovariance
      om == ctorArgs.measuredOmegaCovariance
  IN << <<ie[1][1], ie[1][2], 0, 0, 0>>,
        <<ie[2][1], ie[2][2], 0, 0, 0>>,
        <<0, 0, ac[1][1], ac[1][2], 0>>,
        <<0, 0, ac[2][1], ac[2][2], 0>>,
        <<0, 0, 0, 0, om[1][1]>> >>

\* Entry (i, j) of F * P * F^T as the double sum over k, l of F[i][k] P[k][l] F[j][l];
\* n runs over the pairs (k, l).
RECURSIVE SandwichFrom(_, _, _, _, _)
SandwichFrom(F, P, i, j, n) ==
  IF n = 0 THEN 0
  ELSE F[i][((n - 1) \div Len(P)) + 1] * P[((n - 1) \div Len(P)) + 1][((n - 1) % Len(P)) + 1]
         * F[j][((n - 1) % Len(P)) + 1]
       + SandwichFrom(F, P, i, j, n - 1)

Sandwich(F, P, i, j) == SandwichFrom(F, P, i, j, Len(P) * Len(P))

RECURSIVE SandwichTraceFrom(_, _, _)
SandwichTraceFrom(F, P, i) ==
  IF i = 0 THEN 0 ELSE Sandwich(F, P, i, i) + SandwichTraceFrom(F, P, i - 1)

\* C1: after resetIntegration the tangent state, the covariance and the bias
\* Jacobians are zero (the rotation is the identity), and the bias and the
\* noise configuration are those of the object before the call.
C1_ResetZeroesStateKeepsConfig ==
  last.op = "resetIntegration" =>
    /\ pim.deltaPij_x2 = <<0, 0>>
    /\ pim.deltaVij_ = <<0, 0>>
    /\ pim.deltaRij_ = 0
    /\ IsZero(pim.preintMeasCov_)
    /\ IsZero(pim.delPdelBiasAcc_x2)
    /\ IsZero(pim.delPdelBiasOmega_x2)
    /\ IsZero(pim.delVdelBiasAcc_)
    /\ IsZero(pim.delVdelBiasOmega_)
    /\ IsZero(pim.delRdelBiasOmega_)
    /\ pim.biasHat_ = last.pre.biasHat_
    /\ pim.biasHat_ = ctorArgs.bias
    /\ pim.measurementCovariance_ = last.pre.measurementCovariance_
    /\ pim.measurementCovariance_ = ExpectedQ

\* A reset of an object that held a non-zero state, covariance and Jacobians,
\* a non-zero bias and a non-zero noise configuration.
C1_Witness ==
  /\ last.op = "resetIntegration"
  /\ ~IsZero(last.pre.preintMeasCov_)
  /\ last.pre.deltaVij_ # <<0, 0>>
  /\ last.pre.deltaRij_ # 0
  /\ ~IsZero(last.pre.delVdelBiasAcc_)
  /\ ~IsZero(pim.measurementCovariance_)
  /\ pim.biasHat_ # ZeroBias

\* C2: a call with step deltaT leaves P = F P F^T + Q deltaT, with Q the block
\* diagonal of (integrationErrorCovariance, measuredAccCovariance,
\* measuredOmegaCovariance) and F = [I, I deltaT, 0; 0, I, H_vel_angles;
\* 0, 0, H_angles_angles].
C2_CovariancePropagation ==
  Integrated =>
    /\ last.F_test = ExpectedF
    /\ last.pre.measurementCovariance_ = ExpectedQ
    /\ \A i \in 1..5 : \A j \in 1..5 :
         pim.preintMeasCov_[i][j] =
           Sandwich(ExpectedF, last.pre.preintMeasCov_, i, j) + ExpectedQ[i][j] * last.deltaT

\* A call on a non-zero covariance, with a rotation already accumulated, a
\* non-zero velocity-angle coupling and correlated accelerometer noise.
C2_Witness ==
  /\ Integrated
  /\ ~IsZero(last.pre.preintMeasCov_)
  /\ ~IsZero(last.H_vel_angles)
  /\ last.deltaT = 1
  /\ last.pre.deltaRij_ # 0
  /\ ctorArgs.measuredAccCovariance[1][2] # 0

\* C3: in a call, the bias Jacobians, R_i, theta_i and the coupling
\* H_vel_angles come from the rotation accumulated before the call, and
\* theta_j from the rotation after it.
C3_PreUpdateRotationUsed ==
  Integrated =>
    LET pre == last.pre
        R_pre == Rot3_matrix(pre.deltaRij_)
        dvda == MatScale(MatMul(R_pre, skewSymmetric(last.correctedAcc)), -last.deltaT)
    IN /\ last.R_i = R_pre
       /\ last.theta_i = Rot3_Logmap(pre.deltaRij_)
       /\ last.theta_j = Rot3_Logmap(pim.deltaRij_)
       /\ pim.deltaRij_ = Rot3_compose(pre.deltaRij_, last.Rincr)
       /\ last.H_vel_angles = dvda
       /\ pim.delVdelBiasAcc_ = MatAdd(pre.delVdelBiasAcc_, MatScale(R_pre, -last.deltaT))
       /\ pim.delVdelBiasOmega_ =
            MatAdd(pre.delVdelBiasOmega_, MatMul(dvda, pre.delRdelBiasOmega_))

\* A call that turns an already turned rotation, and changes the Jacobian of
\* the velocity with respect to the gyroscope bias.
C3_Witness ==
  /\ Integrated
  /\ last.pre.deltaRij_ # 0
  /\ pim.deltaRij_ # last.pre.deltaRij_
  /\ last.theta_i # last.theta_j
  /\ pim.delVdelBiasOmega_ # last.pre.delVdelBiasOmega_

\* C4: a call with deltaT <= 0 fails, and leaves the tangent state, the bias
\* Jacobians and the covariance as they were.
C4_NonPositiveDeltaTRejected ==
  (Integrated /\ last.deltaT <= 0) => (last.threw /\ pim = last.pre)

C6_CovarianceSymmetricPSD == IsPositiveSemiDefinite(pim.preintMeasCov_)

\* C7: with positive definite noise, the trace of P after a call is at least
\* the trace of P before it.
C7_TraceNonDecreasing ==
  (Integrated /\ IsPositiveDefinite(last.pre.measurementCovariance_)) =>
    Trace(pim.preintMeasCov_) >= Trace(last.pre.preintMeasCov_)

\* C7, amended: the trace of P after a call is the trace of F P F^T, the
\* covariance before the call propagated through F, plus deltaT times the
\* trace of Q; so for deltaT >= 0 and positive definite noise it is at least
\* the trace of the propagated covariance.
C7_TraceGrowsOverPropagated ==
  Integrated =>
    LET propagated == SandwichTraceFrom(last.F_test, last.pre.preintMeasCov_, 5)
    IN /\ Trace(pim.preintMeasCov_) = propagated + last.deltaT * Trace(ExpectedQ)
       /\ (last.deltaT >= 0 /\ IsPositiveDefinite(last.pre.measurementCovariance_)) =>
            Trace(pim.preintMeasCov_) >= propagated

\* A call under positive definite noise after which the trace of P is smaller
\* than before it.
C7_Witness ==
  /\ Integrated
  /\ last.deltaT > 0
  /\ IsPositiveDefinite(last.pre.measurementCovariance_)
  /\ Trace(pim.preintMeasCov_) < Trace(last.pre.preintMeasCov_)

\* C8: thetaRij is computed at most once in a call.
C8_ThetaRijAtMostOnce == Integrated => Len(last.thetaRijCalls) <= 1

\* C8, amended: thetaRij is computed twice in a call, first on the rotation
\* before the tangent state is advanced and then on the rotation after.
C8_ThetaRijTwice ==
  Integrated =>
    /\ Len(last.thetaRijCalls) = 2
    /\ last.thetaRijCalls[1] = Rot3_Logmap(last.pre.deltaRij_)
    /\ last.thetaRijCalls[2] = Rot3_Logmap(pim.deltaRij_)

\* A call whose two extractions give different coordinates.
C8_Witness ==
  /\ Integrated
  /\ Len(last.thetaRijCalls) = 2
  /\ last.thetaRijCalls[1] # last.thetaRijCalls[2]
  /\ last.thetaRijCalls[1] # 0

\* C10: once a factor exists, no integrateMeasurement or resetIntegration on
\* the object it was built from, and no evaluateError, changes its stored
\* measurement or its noise model.
C10_FactorKeepsSnapshot ==
  [][factor.exists => factor' = factor]_vars

\* A factor with a Gaussian noise model whose object of origin has since
\* integrated a sample and holds another covariance.
C10_Witness ==
  /\ factor.exists
  /\ factor.noiseModel_.kind = "Gaussian"
  /\ Integrated
  /\ pim.preintMeasCov_ # factor._PIM_.preintMeasCov_
  /\ pim.deltaVij_ # factor._PIM_.deltaVij_

====
